---------------------------- MODULE Spec2Model ----------------------------
(***************************************************************************)
(* The investor dashboard of the repository: the binding workflow          *)
(* (checkExistingBinding, handleBindingRequest) and the trade statistics   *)
(* (fetchTraderData) of the InvestorDashboard component, run by several    *)
(* mounted component instances against one backing store.                  *)
(***************************************************************************)
EXTENDS Integers, Sequences, FiniteSets, TLC

\* ------------------------------------------------------------------ bounds
\* Mounted InvestorDashboard instances (browser tabs): the first two belong
\* to investor i1, every further one to investor i2.
MaxSessions == 2
\* Size of the ledgers drawn for the statistics specification (StatsSpec).
MaxTrades == 6

\* --------------------------------------------------------------- constants
\* trades.slice(0, 5)
RecentLimit == 5

\* ------------------------------------------------------------- the strings
\* A string is a sequence of one-character strings.
Space == " "

Upper(c) ==
  CASE c = "a" -> "A"
    [] c = "b" -> "B"
    [] c = "x" -> "X"
    [] c = "y" -> "Y"
    [] c = "z" -> "Z"
    [] OTHER -> c

\* String.prototype.toUpperCase
ToUpperCase(str) == [k \in 1..Len(str) |-> Upper(str[k])]

RECURSIVE TrimStart(_)
TrimStart(str) ==
  IF str # <<>> /\ Head(str) = Space THEN TrimStart(Tail(str)) ELSE str

RECURSIVE TrimEnd(_)
TrimEnd(str) ==
  IF str # <<>> /\ str[Len(str)] = Space
    THEN TrimEnd(SubSeq(str, 1, Len(str) - 1))
    ELSE str

\* String.prototype.trim
Trim(str) == TrimEnd(TrimStart(str))

\* What a user can type into the "Trader UID" input.
InputCodes ==
  { <<" ">>,
    <<"a", "b">>,
    <<"A", "B">>,
    <<" ", "X", "y", " ">>,
    <<"Z", "Z">> }

\* ---------------------------------------------------------------- the users
NoUid == <<>>

NoUser == [id |-> "none", role |-> "none", trader_uid |-> NoUid]

\* The users table: two traders with their public identifiers, two investors.
Users ==
  { [id |-> "t1", role |-> "trader", trader_uid |-> <<"A", "B">>],
    [id |-> "t2", role |-> "trader", trader_uid |-> <<"X", "Y">>],
    [id |-> "i1", role |-> "investor", trader_uid |-> NoUid],
    [id |-> "i2", role |-> "investor", trader_uid |-> NoUid] }

TraderIds == {u.id : u \in {v \in Users : v.role = "trader"}}

InvestorIds == {u.id : u \in {v \in Users : v.role = "investor"}}

UserById(id) == CHOOSE u \in Users : u.id = id

Sessions == 1..MaxSessions

\* profile?.id of the instance
ProfileId(s) == IF s <= 2 THEN "i1" ELSE "i2"

SessionsOf(inv) == {s \in Sessions : ProfileId(s) = inv}

\* --------------------------------------------------------------- the trades
\* profit_loss is an optional number: <<>> when absent, <<n>> when present.
NoPnL == <<>>

\* price, quantity and profit_loss of a trade (profit_loss is absent for an
\* open position).
TradeKinds ==
  { [price |-> 100, quantity |-> 2, profit_loss |-> <<10>>],
    [price |-> 50, quantity |-> 1, profit_loss |-> <<-5>>],
    [price |-> 7, quantity |-> 3, profit_loss |-> NoPnL] }

MkTrade(owner, kind, at) ==
  [user_id |-> owner, price |-> kind.price, quantity |-> kind.quantity,
   profit_loss |-> kind.profit_loss, created_at |-> at]

\* .order('created_at', { ascending: false }) over rows with distinct
\* creation times
RECURSIVE OrderDesc(_)
OrderDesc(rows) ==
  IF rows = {} THEN <<>>
  ELSE LET newest == CHOOSE r \in rows : \A q \in rows : q.created_at <= r.created_at
       IN <<newest>> \o OrderDesc(rows \ {newest})

\* The same order, ascending.
RECURSIVE OrderAsc(_)
OrderAsc(rows) ==
  IF rows = {} THEN <<>>
  ELSE LET oldest == CHOOSE r \in rows : \A q \in rows : r.created_at <= q.created_at
       IN <<oldest>> \o OrderAsc(rows \ {oldest})

\* The query with { ascending: true }.
TradesQueryAscending(table, traderId) ==
  OrderAsc({r \in table : r.user_id = traderId})

\* from('trades').select('*').eq('user_id', traderId).order(created_at desc)
TradesQuery(table, traderId) == OrderDesc({r \in table : r.user_id = traderId})

\* The reduction without the quantity: sum + trade.price.
RECURSIVE ReducePrices(_, _)
ReducePrices(rows, sum) ==
  IF rows = <<>> THEN sum
  ELSE ReducePrices(Tail(rows), sum + Head(rows).price)

\* trades.reduce((sum, trade) => sum + (trade.price * trade.quantity), 0)
RECURSIVE ReduceValue(_, _)
ReduceValue(rows, sum) ==
  IF rows = <<>> THEN sum
  ELSE ReduceValue(Tail(rows), sum + (Head(rows).price * Head(rows).quantity))

\* trade.profit_loss || 0
PnLOrZero(t) == IF t.profit_loss = NoPnL THEN 0 ELSE t.profit_loss[1]

\* trades.reduce((sum, trade) => sum + (trade.profit_loss || 0), 0)
RECURSIVE ReducePnL(_, _)
ReducePnL(rows, sum) ==
  IF rows = <<>> THEN sum
  ELSE ReducePnL(Tail(rows), sum + PnLOrZero(Head(rows)))

\* trades.slice(0, 5)
Slice(rows, n) == SubSeq(rows, 1, IF Len(rows) < n THEN Len(rows) ELSE n)

ZeroStats == [totalTrades |-> 0, totalValue |-> 0, totalPnL |-> 0]

\* The state fetchTraderData sets from the rows the query returned.
ComputeStats(rows) ==
  [ stats |-> [totalTrades |-> Len(rows),
               totalValue |-> ReduceValue(rows, 0),
               totalPnL |-> ReducePnL(rows, 0)],
    recent |-> Slice(rows, RecentLimit) ]

\* ------------------------------------------------------------- the bindings
\* The bindings table is the sequence of its rows in insertion order.
NoError == "none"
UniqueViolation == "23505"
OtherError == "other"

NoBinding == [investor_id |-> "none", trader_id |-> "none", status |-> "none"]

RowsOf(table, inv) == {k \in DOMAIN table : table[k].investor_id = inv}

HasBinding(table, inv) == RowsOf(table, inv) # {}

\* insert into bindings: the row gets the default status pending, and the
\* uniqueness constraint over investor_id rejects a second row of an investor
\* with error 23505. A failing store answers with another error and inserts
\* nothing.
BindingsInsertNoConstraint(table, traderId, inv) ==
  { [error |-> NoError,
     table |-> Append(table, [investor_id |-> inv, trader_id |-> traderId,
                              status |-> "pending"])],
    [error |-> OtherError, table |-> table] }

BindingsInsert(table, traderId, inv) ==
  { IF HasBinding(table, inv)
      THEN [error |-> UniqueViolation, table |-> table]
      ELSE [error |-> NoError,
            table |-> Append(table, [investor_id |-> inv, trader_id |-> traderId,
                                     status |-> "pending"])],
    [error |-> OtherError, table |-> table] }

\* An upsert on investor_id, which the handler does not use: it overwrites
\* the investor's row.
BindingsUpsert(table, traderId, inv) ==
  { IF HasBinding(table, inv)
      THEN [error |-> NoError,
            table |-> [k \in DOMAIN table |->
                         IF table[k].investor_id = inv
                           THEN [investor_id |-> inv, trader_id |-> traderId,
                                 status |-> "pending"]
                           ELSE table[k]]]
      ELSE [error |-> NoError,
            table |-> Append(table, [investor_id |-> inv, trader_id |-> traderId,
                                     status |-> "pending"])],
    [error |-> OtherError, table |-> table] }

\* from('bindings').select('*, users!bindings_trader_id_fkey(*)')
\*   .eq('investor_id', id).maybeSingle(): the row joined with its trader, or
\* no data (no row, several rows, or a failing store).
BindingsQuery(table, inv) ==
  { IF Cardinality(RowsOf(table, inv)) = 1
      THEN LET row == table[CHOOSE k \in RowsOf(table, inv) : TRUE]
           IN [data |-> row, users |-> UserById(row.trader_id)]
      ELSE [data |-> NoBinding, users |-> NoUser],
    [data |-> NoBinding, users |-> NoUser] }

\* from('users').select('*').eq('trader_uid', code).eq('role', 'trader')
\*   .maybeSingle(): the matching trader, no data, or a failing store.
UsersQuery(code) ==
  LET found == {u \in Users : u.trader_uid # NoUid /\ u.trader_uid = code
                              /\ u.role = "trader"}
  IN { IF Cardinality(found) = 1
         THEN [data |-> CHOOSE u \in found : TRUE, error |-> NoError]
         ELSE [data |-> NoUser, error |-> NoError],
       [data |-> NoUser, error |-> OtherError] }

\* The trades query as the component sees it: the rows, or no data.
TradesAnswers(table, traderId) ==
  { [ok |-> TRUE, rows |-> TradesQuery(table, traderId)],
    [ok |-> FALSE, rows |-> <<>>] }

\* ---------------------------------------------------------------- the state
VARIABLES
  bindings,       \* the bindings table
  trades,         \* the trades table
  traderUid,      \* per instance: the text of the "Trader UID" input
  boundTrader,    \* per instance: the displayed trader, or NoUser
  bindingStatus,  \* per instance: 'none' | 'pending' | 'approved'
  traderStats,    \* per instance: totalTrades, totalValue, totalPnL
  recentTrades,   \* per instance: the recent activity
  loading,        \* per instance
  submitting,     \* per instance
  pc,             \* per instance: the await its running handler stands at
  reqCode,        \* per running handleBindingRequest: the traderUid it closed over
  trader,         \* per running handleBindingRequest: the trader it looked up
  bindingError,   \* per running handleBindingRequest: the insert's error
  fetchId,        \* per running fetchTraderData: its traderId argument
  outcome,        \* per instance: the toast of its current or last request
  cause,          \* per instance: what ended its last request
  heldAtStart     \* per instance: the investor held a binding when its
                  \* current or last request began

storeVars == <<bindings, trades>>

viewVars ==
  <<traderUid, boundTrader, bindingStatus, traderStats, recentTrades, loading,
    submitting>>

callVars == <<pc, reqCode, trader, bindingError, fetchId>>

traceVars == <<outcome, cause, heldAtStart>>

vars == <<storeVars, viewVars, callVars, traceVars>>

\* The toasts of handleBindingRequest.
EnterTraderUid == "Please enter a trader UID"
TraderNotFound == "Trader not found"
AlreadyRequested == "Already requested"
RequestSent == "Request sent!"
ErrorMessage == "Error: error.message"

\* The component after its first render with a profile: useState's initial
\* values, and the effect has called checkExistingBinding, whose binding query
\* is on its way.
InitSessions ==
  /\ traderUid = [s \in Sessions |-> <<>>]
  /\ boundTrader = [s \in Sessions |-> NoUser]
  /\ bindingStatus = [s \in Sessions |-> "none"]
  /\ traderStats = [s \in Sessions |-> ZeroStats]
  /\ recentTrades = [s \in Sessions |-> <<>>]
  /\ loading = [s \in Sessions |-> TRUE]
  /\ submitting = [s \in Sessions |-> FALSE]
  /\ pc = [s \in Sessions |-> "check"]
  /\ reqCode = [s \in Sessions |-> <<>>]
  /\ trader = [s \in Sessions |-> NoUser]
  /\ bindingError = [s \in Sessions |-> NoError]
  /\ fetchId = [s \in Sessions |-> "none"]
  /\ outcome = [s \in Sessions |-> "none"]
  /\ cause = [s \in Sessions |-> "none"]
  /\ heldAtStart = [s \in Sessions |-> FALSE]

\* The ledgers the dashboards run against: t1 has recorded the two trades of
\* the documented example, t2 one open position.
ExampleLedger ==
  { MkTrade("t1", [price |-> 100, quantity |-> 2, profit_loss |-> <<10>>], 1),
    MkTrade("t2", [price |-> 7, quantity |-> 3, profit_loss |-> NoPnL], 2),
    MkTrade("t1", [price |-> 50, quantity |-> 1, profit_loss |-> <<-5>>], 3) }

Init ==
  /\ bindings = <<>>
  /\ trades = ExampleLedger
  /\ InitSessions

\* --------------------------------------------------- checkExistingBinding
\* The binding query answers: lines 48-61, and 64-66 when no trades are read.
CebBindingAnyStatus(s) ==
  /\ pc[s] = "check"
  /\ \E ans \in BindingsQuery(bindings, ProfileId(s)) :
       IF ans.data # NoBinding
         THEN /\ bindingStatus' = [bindingStatus EXCEPT ![s] = ans.data.status]
              /\ boundTrader' = [boundTrader EXCEPT ![s] = ans.users]
              /\ pc' = [pc EXCEPT ![s] = "fetch"]
              /\ fetchId' = [fetchId EXCEPT ![s] = ans.data.trader_id]
              /\ UNCHANGED loading
         ELSE /\ pc' = [pc EXCEPT ![s] = "idle"]
              /\ loading' = [loading EXCEPT ![s] = FALSE]
              /\ UNCHANGED <<bindingStatus, boundTrader, fetchId>>
  /\ UNCHANGED <<storeVars, traderUid, traderStats, recentTrades, submitting,
                 reqCode, trader, bindingError, traceVars>>

CebBinding(s) ==
  /\ pc[s] = "check"
  /\ \E ans \in BindingsQuery(bindings, ProfileId(s)) :
       IF ans.data # NoBinding
         THEN /\ bindingStatus' = [bindingStatus EXCEPT ![s] = ans.data.status]
              /\ boundTrader' = [boundTrader EXCEPT ![s] = ans.users]
              /\ IF ans.data.status = "approved"
                   THEN /\ pc' = [pc EXCEPT ![s] = "fetch"]
                        /\ fetchId' = [fetchId EXCEPT ![s] = ans.data.trader_id]
                        /\ UNCHANGED loading
                   ELSE /\ pc' = [pc EXCEPT ![s] = "idle"]
                        /\ loading' = [loading EXCEPT ![s] = FALSE]
                        /\ UNCHANGED fetchId
         ELSE /\ pc' = [pc EXCEPT ![s] = "idle"]
              /\ loading' = [loading EXCEPT ![s] = FALSE]
              /\ UNCHANGED <<bindingStatus, boundTrader, fetchId>>
  /\ UNCHANGED <<storeVars, traderUid, traderStats, recentTrades, submitting,
                 reqCode, trader, bindingError, traceVars>>

\* ------------------------------------------------------- fetchTraderData
\* The trades query answers: lines 72-89, then lines 64-66 of the caller.
CebTrades(s) ==
  /\ pc[s] = "fetch"
  /\ \E ans \in TradesAnswers(trades, fetchId[s]) :
       IF ans.ok
         THEN /\ traderStats' = [traderStats EXCEPT ![s] = ComputeStats(ans.rows).stats]
              /\ recentTrades' = [recentTrades EXCEPT ![s] = ComputeStats(ans.rows).recent]
         ELSE UNCHANGED <<traderStats, recentTrades>>
  /\ loading' = [loading EXCEPT ![s] = FALSE]
  /\ pc' = [pc EXCEPT ![s] = "idle"]
  /\ fetchId' = [fetchId EXCEPT ![s] = "none"]
  /\ UNCHANGED <<storeVars, traderUid, boundTrader, bindingStatus, submitting,
                 reqCode, trader, bindingError, traceVars>>

\* ------------------------------------------------------- the binding form
\* The form is rendered when the component is not loading and shows no binding
\* (lines 181-237).
FormRendered(s) == ~loading[s] /\ bindingStatus[s] = "none"

\* --------------------------------------------------- handleBindingRequest
\* The user types a code into the input (onChange, line 220) and clicks "Send
\* Request": lines 95-105 and the users query of 108-113 being sent. The
\* button is disabled while a request is submitting (line 228).
HbrStart(s, code) ==
  /\ FormRendered(s)
  /\ ~submitting[s]
  /\ pc[s] = "idle"
  /\ traderUid' = [traderUid EXCEPT ![s] = code]
  /\ IF Trim(code) = <<>>
       THEN /\ outcome' = [outcome EXCEPT ![s] = EnterTraderUid]
            /\ cause' = [cause EXCEPT ![s] = "empty_code"]
            /\ heldAtStart' = [heldAtStart EXCEPT ![s] = HasBinding(bindings, ProfileId(s))]
            /\ UNCHANGED <<submitting, pc, reqCode>>
       ELSE /\ submitting' = [submitting EXCEPT ![s] = TRUE]
            /\ pc' = [pc EXCEPT ![s] = "lookup"]
            /\ reqCode' = [reqCode EXCEPT ![s] = code]
            /\ outcome' = [outcome EXCEPT ![s] = "none"]
            /\ cause' = [cause EXCEPT ![s] = "none"]
            /\ heldAtStart' = [heldAtStart EXCEPT ![s] = HasBinding(bindings, ProfileId(s))]
  /\ UNCHANGED <<storeVars, boundTrader, bindingStatus, traderStats,
                 recentTrades, loading, trader, bindingError, fetchId>>

\* The handler leaves through its finally block (lines 159-161).
Finally(s) ==
  /\ submitting' = [submitting EXCEPT ![s] = FALSE]
  /\ pc' = [pc EXCEPT ![s] = "idle"]
  /\ reqCode' = [reqCode EXCEPT ![s] = <<>>]
  /\ trader' = [trader EXCEPT ![s] = NoUser]
  /\ bindingError' = [bindingError EXCEPT ![s] = NoError]

\* Lines 115-122 (and the insert of 125-130 being sent) on the users query's
\* answer.
OnTraderAnswer(s, ans) ==
  IF ans.error # NoError \/ ans.data = NoUser
    THEN /\ outcome' = [outcome EXCEPT ![s] = TraderNotFound]
         /\ cause' = [cause EXCEPT ![s] =
              IF ans.error # NoError THEN "lookup_failed" ELSE "no_trader"]
         /\ Finally(s)
    ELSE /\ trader' = [trader EXCEPT ![s] = ans.data]
         /\ pc' = [pc EXCEPT ![s] = "insert"]
         /\ UNCHANGED <<outcome, cause, submitting, reqCode, bindingError>>

\* The handler without toUpperCase() in line 111.
HbrLookupNoUpper(s) ==
  /\ pc[s] = "lookup"
  /\ \E ans \in UsersQuery(Trim(reqCode[s])) : OnTraderAnswer(s, ans)
  /\ UNCHANGED <<storeVars, traderUid, boundTrader, bindingStatus, traderStats,
                 recentTrades, loading, fetchId, heldAtStart>>

\* The handler without the check of line 115: it goes on to the insert with
\* whatever the query returned.
HbrLookupNoCheck(s) ==
  /\ pc[s] = "lookup"
  /\ \E ans \in UsersQuery(ToUpperCase(Trim(reqCode[s]))) :
       /\ trader' = [trader EXCEPT ![s] = ans.data]
       /\ pc' = [pc EXCEPT ![s] = "insert"]
  /\ UNCHANGED <<storeVars, viewVars, fetchId, outcome, cause,
                 submitting, reqCode, bindingError, heldAtStart>>

\* The users query answers: lines 108-122.
HbrLookup(s) ==
  /\ pc[s] = "lookup"
  /\ \E ans \in UsersQuery(ToUpperCase(Trim(reqCode[s]))) : OnTraderAnswer(s, ans)
  /\ UNCHANGED <<storeVars, traderUid, boundTrader, bindingStatus, traderStats,
                 recentTrades, loading, fetchId, heldAtStart>>

\* The handler with upsert() in place of insert() in line 127.
HbrInsertUpsert(s) ==
  /\ pc[s] = "insert"
  /\ \E ans \in BindingsUpsert(bindings, trader[s].id, ProfileId(s)) :
       /\ bindings' = ans.table
       /\ bindingError' = [bindingError EXCEPT ![s] = ans.error]
  /\ pc' = [pc EXCEPT ![s] = "resp"]
  /\ UNCHANGED <<trades, viewVars, reqCode, trader, fetchId, traceVars>>

\* The store executes the insert of lines 125-130.
HbrInsert(s) ==
  /\ pc[s] = "insert"
  /\ \E ans \in BindingsInsert(bindings, trader[s].id, ProfileId(s)) :
       /\ bindings' = ans.table
       /\ bindingError' = [bindingError EXCEPT ![s] = ans.error]
  /\ pc' = [pc EXCEPT ![s] = "resp"]
  /\ UNCHANGED <<trades, viewVars, reqCode, trader, fetchId, traceVars>>

\* Lines 145-152: the request went through.
OnInserted(s) ==
  /\ boundTrader' = [boundTrader EXCEPT ![s] = trader[s]]
  /\ bindingStatus' = [bindingStatus EXCEPT ![s] = "pending"]
  /\ traderUid' = [traderUid EXCEPT ![s] = <<>>]
  /\ outcome' = [outcome EXCEPT ![s] = RequestSent]
  /\ cause' = [cause EXCEPT ![s] = "inserted"]

\* The handler without the check of line 132.
HbrResponseNoCheck(s) ==
  /\ pc[s] = "resp"
  /\ OnInserted(s)
  /\ Finally(s)
  /\ UNCHANGED <<storeVars, traderStats, recentTrades, loading, fetchId, heldAtStart>>

\* The handler without the branch of line 133: every insert error is thrown.
HbrResponseRethrows(s) ==
  /\ pc[s] = "resp"
  /\ IF bindingError[s] # NoError
       THEN /\ outcome' = [outcome EXCEPT ![s] = ErrorMessage]
            /\ cause' = [cause EXCEPT ![s] =
                 IF bindingError[s] = UniqueViolation THEN "unique_violation"
                 ELSE "insert_failed"]
            /\ UNCHANGED <<boundTrader, bindingStatus, traderUid>>
       ELSE OnInserted(s)
  /\ Finally(s)
  /\ UNCHANGED <<storeVars, traderStats, recentTrades, loading, fetchId, heldAtStart>>

\* The insert's answer arrives: lines 132-161.
HbrResponse(s) ==
  /\ pc[s] = "resp"
  /\ CASE bindingError[s] = UniqueViolation ->
            /\ outcome' = [outcome EXCEPT ![s] = AlreadyRequested]
            /\ cause' = [cause EXCEPT ![s] = "unique_violation"]
            /\ UNCHANGED <<boundTrader, bindingStatus, traderUid>>
       [] bindingError[s] = OtherError ->
            /\ outcome' = [outcome EXCEPT ![s] = ErrorMessage]
            /\ cause' = [cause EXCEPT ![s] = "insert_failed"]
            /\ UNCHANGED <<boundTrader, bindingStatus, traderUid>>
       [] OTHER -> OnInserted(s)
  /\ Finally(s)
  /\ UNCHANGED <<storeVars, traderStats, recentTrades, loading, fetchId, heldAtStart>>

\* ------------------------------------------------------ the trader's side
\* The trader approves a pending request.
Approve(k) ==
  /\ k \in DOMAIN bindings
  /\ bindings[k].status = "pending"
  /\ bindings' = [bindings EXCEPT ![k].status = "approved"]
  /\ UNCHANGED <<trades, viewVars, callVars, traceVars>>

\* ------------------------------------------------------ the specifications
Next ==
  \/ \E s \in Sessions : CebBinding(s)
  \/ \E s \in Sessions : CebTrades(s)
  \/ \E s \in Sessions : \E code \in InputCodes : HbrStart(s, code)
  \/ \E s \in Sessions : HbrLookup(s)
  \/ \E s \in Sessions : HbrInsert(s)
  \/ \E s \in Sessions : HbrResponse(s)
  \/ \E k \in DOMAIN bindings : Approve(k)

Spec == Init /\ [][Next]_vars

\* The statistics specification: every ledger of up to MaxTrades trades (at
\* most one of them of another trader) under an approved binding of investor
\* i1 to trader t1, read by one mounting dashboard of i1.
Ledgers ==
  UNION { { {MkTrade(IF k \in other THEN "t2" ELSE "t1", f[k], k) : k \in 1..n} :
              f \in [1..n -> TradeKinds],
              other \in {o \in SUBSET (1..n) : Cardinality(o) <= 1} } :
          n \in 0..MaxTrades }

StatsInit ==
  /\ bindings = <<[investor_id |-> "i1", trader_id |-> "t1", status |-> "approved"]>>
  /\ trades \in Ledgers
  /\ InitSessions

StatsNext ==
  \/ CebBinding(1)
  \/ CebTrades(1)

StatsSpec == StatsInit /\ [][StatsNext]_vars

\* ------------------------------------------------------------- the claims
\* The outcome a toast stands for.
OutcomeKind(toast) ==
  CASE toast = RequestSent -> "success"
    [] toast = EnterTraderUid -> "ValidationError"
    [] toast = TraderNotFound -> "NotFoundError"
    [] toast = AlreadyRequested -> "DuplicateRequestError"
    [] toast = ErrorMessage -> "TransportError"
    [] OTHER -> "none"

\* The outcome the error taxonomy gives to what ended a request.
ExpectedKind(c) ==
  CASE c = "inserted" -> "success"
    [] c = "empty_code" -> "ValidationError"
    [] c = "no_trader" -> "NotFoundError"
    [] c = "unique_violation" -> "DuplicateRequestError"
    [] c \in {"lookup_failed", "insert_failed"} -> "TransportError"
    [] OTHER -> "none"

\* The traders a supplied code stands for: those whose public identifier is
\* the code trimmed and upper-cased.
TradersFor(code) ==
  {u \in Users : u.role = "trader" /\ u.trader_uid = ToUpperCase(Trim(code))}

Resolves(code) == TradersFor(code) # {}

\* This step ends a request of instance s (an empty code ends it at once).
Ends(s) ==
  \/ pc[s] \in {"lookup", "resp"} /\ pc'[s] = "idle"
  \/ /\ pc[s] = "idle" /\ pc'[s] = "idle"
     /\ cause'[s] = "empty_code"
     /\ <<cause[s], traderUid[s], heldAtStart[s]>> # <<cause'[s], traderUid'[s], heldAtStart'[s]>>

\* The code of the request this step ends.
EndingCode(s) == IF pc[s] = "idle" THEN traderUid'[s] ELSE reqCode[s]

\* The store answered every call of the request this step ends.
Answered(s) == cause'[s] \notin {"lookup_failed", "insert_failed"}

\* C1: in every reachable state the bindings table holds at most one row per
\* investor.
C1_OneBindingPerInvestor ==
  \A k1, k2 \in DOMAIN bindings :
    bindings[k1].investor_id = bindings[k2].investor_id => k1 = k2

\* C1 witness: two dashboards of one investor raced for the insert; one row
\* was inserted and approved, and the other insert was turned down by the
\* store.
C1_Witness ==
  \E s \in Sessions :
    /\ cause[s] = "unique_violation" /\ ~heldAtStart[s]
    /\ \E k \in RowsOf(bindings, ProfileId(s)) : bindings[k].status = "approved"

\* C2: when each of the N >= 2 dashboards of an investor has ended a request
\* whose trader lookup and insert the store answered, exactly one of them ended
\* in success and the other N-1 in DuplicateRequestError, whatever the
\* interleaving of their steps; and never do two of them show success.
C2_OneWinner ==
  \A inv \in InvestorIds :
    LET S == SessionsOf(inv)
        won == {s \in S : outcome[s] = RequestSent}
        lost == {s \in S : outcome[s] = AlreadyRequested}
    IN /\ Cardinality(won) <= 1
       /\ (/\ Cardinality(S) >= 2
           /\ \A s \in S : pc[s] = "idle" /\ cause[s] \in {"inserted", "unique_violation"})
            => Cardinality(won) = 1 /\ Cardinality(lost) = Cardinality(S) - 1

\* C2 witness: two requests of one investor, both begun while the investor
\* held no binding, have ended: one in success, one in DuplicateRequestError.
C2_Witness ==
  \E s1, s2 \in Sessions :
    /\ s1 # s2 /\ ProfileId(s1) = ProfileId(s2)
    /\ pc[s1] = "idle" /\ outcome[s1] = RequestSent /\ ~heldAtStart[s1]
    /\ pc[s2] = "idle" /\ outcome[s2] = AlreadyRequested /\ ~heldAtStart[s2]
    /\ \A s \in SessionsOf(ProfileId(s1)) :
         pc[s] = "idle" /\ outcome[s] \in {RequestSent, AlreadyRequested}

\* C3 as claimed: a request of an investor who held a binding when it began
\* ends, whenever the store answers, in DuplicateRequestError whatever the
\* (non-empty) code, and leaves the bindings table unchanged.
C3_AsClaimed ==
  [][\A s \in Sessions :
       (Ends(s) /\ heldAtStart'[s] /\ Answered(s) /\ Trim(EndingCode(s)) # <<>>)
         => outcome'[s] = AlreadyRequested /\ bindings' = bindings]_vars

\* C3 amended: a request of an investor who held a binding when it began
\* never inserts or changes a row and never ends in success; when the store
\* answers, it ends in ValidationError for an empty code, in NotFoundError for
\* a code that matches no trader, and in DuplicateRequestError for every code
\* that matches a trader.
C3_HeldNeverSucceeds ==
  [][\A s \in Sessions :
       /\ (pc[s] = "insert" /\ pc'[s] = "resp" /\ heldAtStart[s])
            => bindings' = bindings /\ bindingError'[s] # NoError
       /\ (Ends(s) /\ heldAtStart'[s])
            => /\ bindings' = bindings
               /\ outcome'[s] # RequestSent
               /\ bindingStatus'[s] = bindingStatus[s]
               /\ Answered(s) =>
                    outcome'[s] =
                      IF Trim(EndingCode(s)) = <<>> THEN EnterTraderUid
                      ELSE IF Resolves(EndingCode(s)) THEN AlreadyRequested
                      ELSE TraderNotFound]_vars

\* C3 witness: an investor with an approved binding to t1 asked for t2 and was
\* turned down with DuplicateRequestError.
C3_Witness ==
  \E s \in Sessions :
    /\ pc[s] = "idle" /\ heldAtStart[s] /\ outcome[s] = AlreadyRequested
    /\ TradersFor(traderUid[s]) = {UserById("t2")}
    /\ \E k \in DOMAIN bindings :
         bindings[k] = [investor_id |-> ProfileId(s), trader_id |-> "t1",
                        status |-> "approved"]

C5_ValidCodeCreatesPending ==
  [][\A s \in Sessions :
       /\ (pc[s] = "lookup" /\ pc'[s] # "lookup" /\ Resolves(reqCode[s])
             /\ cause'[s] # "lookup_failed")
            => pc'[s] = "insert" /\ TradersFor(reqCode[s]) = {trader'[s]}
       /\ (pc[s] = "insert" /\ pc'[s] = "resp"
             /\ ~HasBinding(bindings, ProfileId(s)) /\ bindingError'[s] # OtherError)
            => /\ bindingError'[s] = NoError
               /\ TradersFor(reqCode[s]) = {trader[s]}
               /\ bindings' = Append(bindings,
                    [investor_id |-> ProfileId(s), trader_id |-> trader[s].id,
                     status |-> "pending"])
       /\ (pc[s] = "resp" /\ pc'[s] = "idle" /\ bindingError[s] = NoError)
            => /\ outcome'[s] = RequestSent
               /\ bindingStatus'[s] = "pending"
               /\ TradersFor(reqCode[s]) = {boundTrader'[s]}
               /\ \E k \in DOMAIN bindings' :
                    /\ bindings'[k].investor_id = ProfileId(s)
                    /\ bindings'[k].trader_id = boundTrader'[s].id]_vars

\* C5 witness: the lower-case code ab and the upper-case code AB were both
\* sent by dashboards of one investor; ab won, the dashboard shows pending
\* with trader t1 (identifier AB) and the table holds the one row.
C5_Witness ==
  \E s, o \in Sessions :
    /\ pc[s] = "idle" /\ outcome[s] = RequestSent /\ ~heldAtStart[s]
    /\ bindingStatus[s] = "pending" /\ boundTrader[s] = UserById("t1")
    /\ bindings = <<[investor_id |-> ProfileId(s), trader_id |-> "t1",
                     status |-> "pending"]>>
    /\ pc[o] = "insert" /\ reqCode[o] = <<"A", "B">> /\ trader[o] = boundTrader[s]

\* C6: every step keeps every binding row in place with its investor and its
\* trader, changes a status at most from pending to approved, adds at most one
\* row, a pending one of an investor who had none; and a step of a dashboard
\* (one that changes any dashboard's state) changes no existing row.
C6_BindingLifecycle ==
  [][/\ Len(bindings') \in {Len(bindings), Len(bindings) + 1}
     /\ \A k \in DOMAIN bindings :
          /\ bindings'[k].investor_id = bindings[k].investor_id
          /\ bindings'[k].trader_id = bindings[k].trader_id
          /\ \/ bindings'[k].status = bindings[k].status
             \/ bindings[k].status = "pending" /\ bindings'[k].status = "approved"
     /\ Len(bindings') = Len(bindings) + 1 =>
          /\ bindings'[Len(bindings')].status = "pending"
          /\ ~HasBinding(bindings, bindings'[Len(bindings')].investor_id)
     /\ <<viewVars, callVars, traceVars>>' # <<viewVars, callVars, traceVars>> =>
          \A k \in DOMAIN bindings : bindings'[k] = bindings[k]]_vars

\* C6 witness: a binding to t1 was requested by one dashboard and approved by
\* the trader; then another dashboard of the investor asked for trader t2 and
\* was turned down; the row stands approved and still names t1.
C6_Witness ==
  \E s, o \in Sessions :
    /\ s # o /\ ProfileId(s) = ProfileId(o)
    /\ bindings = <<[investor_id |-> ProfileId(s), trader_id |-> "t1",
                     status |-> "approved"]>>
    /\ pc[s] = "idle" /\ heldAtStart[s] /\ cause[s] = "unique_violation"
    /\ TradersFor(traderUid[s]) = {UserById("t2")}
    /\ pc[o] = "idle" /\ outcome[o] = RequestSent /\ bindingStatus[o] = "pending"

\* C9 as claimed: the outcome of every ended request is the one the error
\* taxonomy gives to its cause: an empty code ValidationError, a failed trader
\* lookup or a failed insert TransportError, no matching trader NotFoundError,
\* a uniqueness violation DuplicateRequestError, an inserted row success.
C9_AsClaimed ==
  \A s \in Sessions :
    cause[s] # "none" => OutcomeKind(outcome[s]) = ExpectedKind(cause[s])

\* C10: the trades of trader T are being read for a dashboard only after its
\* binding lookup returned an approved row to T; a dashboard whose investor's
\* binding is absent or pending shows all-zero statistics and no recent
\* trades; and non-zero statistics or recent trades are shown only with the
\* displayed status approved.
C10_StatsOnlyWhenApproved ==
  \A s \in Sessions :
    LET approvedTo(t) ==
          \E k \in DOMAIN bindings :
            bindings[k] = [investor_id |-> ProfileId(s), trader_id |-> t,
                           status |-> "approved"]
        shown == traderStats[s] # ZeroStats \/ recentTrades[s] # <<>>
    IN /\ pc[s] = "fetch" =>
            /\ bindingStatus[s] = "approved"
            /\ boundTrader[s].id = fetchId[s]
            /\ approvedTo(fetchId[s])
       /\ (~\E t \in TraderIds : approvedTo(t)) => ~shown
       /\ shown => bindingStatus[s] = "approved" /\ approvedTo(boundTrader[s].id)
       /\ outcome[s] = RequestSent => ~shown /\ bindingStatus[s] = "pending"

\* C10 witness: one dashboard of an investor sent the request and still shows
\* pending with all-zero statistics, while another, mounted after the
\* approval, shows the trader's statistics.
C10_Witness ==
  \E s, o \in Sessions :
    /\ ProfileId(s) = ProfileId(o)
    /\ outcome[s] = RequestSent /\ bindingStatus[s] = "pending"
    /\ traderStats[s] = ZeroStats /\ recentTrades[s] = <<>>
    /\ pc[o] = "idle" /\ bindingStatus[o] = "approved"
    /\ traderStats[o] = [totalTrades |-> 2, totalValue |-> 250, totalPnL |-> 5]
    /\ Len(recentTrades[o]) = 2

\* The ledger of a trader: the rows of the trades table the trader owns.
LedgerOf(t) == {r \in trades : r.user_id = t}

RECURSIVE SumOfValues(_)
SumOfValues(rows) ==
  IF rows = {} THEN 0
  ELSE LET r == CHOOSE x \in rows : TRUE
       IN (r.price * r.quantity) + SumOfValues(rows \ {r})

RECURSIVE SumOfPnL(_)
SumOfPnL(rows) ==
  IF rows = {} THEN 0
  ELSE LET r == CHOOSE x \in rows : TRUE
       IN r.profit_loss[1] + SumOfPnL(rows \ {r})

\* The statistics of a ledger, by the definitions of the data model.
StatsOf(rows) ==
  [totalTrades |-> Cardinality(rows),
   totalValue |-> SumOfValues(rows),
   totalPnL |-> SumOfPnL({r \in rows : r.profit_loss # NoPnL})]

\* What fetchTraderData computes from trader t1's ledger as the store holds it.
Computed == ComputeStats(TradesQuery(trades, "t1"))

\* C7: for every ledger, the statistics computed from it are the number of its
\* trades, the sum of price*quantity and the sum of the present profit_loss
\* values (all zero for the empty ledger); and a dashboard that has loaded an
\* approved binding shows these, or the initial zeros when the read failed.
C7_StatsAreSums ==
  /\ Computed.stats = StatsOf(LedgerOf("t1"))
  /\ LedgerOf("t1") = {} => Computed.stats = ZeroStats /\ Computed.recent = <<>>
  /\ \A s \in Sessions :
       (pc[s] = "idle" /\ bindingStatus[s] = "approved") =>
         \/ traderStats[s] = StatsOf(LedgerOf("t1"))
         \/ traderStats[s] = ZeroStats /\ recentTrades[s] = <<>>

\* C7 witness: a dashboard shows the statistics of a ledger of at least three
\* trades, one of them without profit_loss, read from a table that also holds
\* a trade of another trader.
C7_Witness ==
  /\ pc[1] = "idle" /\ bindingStatus[1] = "approved"
  /\ traderStats[1] = StatsOf(LedgerOf("t1"))
  /\ traderStats[1].totalTrades >= 3 /\ traderStats[1].totalPnL # 0
  /\ \E r \in LedgerOf("t1") : r.profit_loss = NoPnL
  /\ trades # LedgerOf("t1")

\* C8: for every ledger, the recent trades computed from it are min(5, size)
\* trades of the ledger in strictly descending creation time, every other
\* trade of the ledger being older than all of them, while totalTrades is the
\* size of the whole ledger; and a dashboard that has loaded an approved
\* binding shows exactly these (or nothing when the read failed).
C8_RecentIsNewestFive ==
  LET L == LedgerOf("t1")
      R == Computed.recent
      shown == {R[k] : k \in DOMAIN R}
  IN /\ Len(R) <= RecentLimit
     /\ Len(R) = IF Cardinality(L) < RecentLimit THEN Cardinality(L) ELSE RecentLimit
     /\ shown \subseteq L
     /\ \A j, k \in DOMAIN R : j < k => R[j].created_at > R[k].created_at
     /\ \A r \in L \ shown : \A k \in DOMAIN R : r.created_at < R[k].created_at
     /\ Computed.stats.totalTrades = Cardinality(L)
     /\ \A s \in Sessions :
          (pc[s] = "idle" /\ bindingStatus[s] = "approved") =>
            \/ recentTrades[s] = R /\ traderStats[s].totalTrades = Cardinality(L)
            \/ traderStats[s] = ZeroStats /\ recentTrades[s] = <<>>

\* C8 witness: a dashboard shows five recent trades of a ledger of more than
\* five, and counts them all.
C8_Witness ==
  /\ pc[1] = "idle" /\ bindingStatus[1] = "approved"
  /\ Len(recentTrades[1]) = RecentLimit
  /\ traderStats[1].totalTrades > RecentLimit
  /\ traderStats[1].totalTrades = Cardinality(LedgerOf("t1"))

=============================================================================
